---- MODULE Spec2Model ----
(***************************************************************************)
(* Model of agent_tools.sequential_toolkit.SequentialPDFFitRunner: the     *)
(* file ledger (input_files_known / _completed / _running), the parameter  *)
(* carry-over (last_result_variables_values), one round of sequential      *)
(* fits, and the batch / stream run controller with its two threads.       *)
(***************************************************************************)
EXTENDS Integers, Sequences, FiniteSets, TLC

\* ------------------------------------------------------------------ bounds
\* Refined values are kept modulo ValMod so that the value space is finite.
ValMod == 3
\* At most MaxFaults disturbances happen in one behaviour: a fit that fails,
\* a file deleted from the input directory, a new runner made by a restart.
MaxFaults == 1
\* History counters of rounds saturate at MaxCount.
MaxCount == 2

\* ------------------------------------------------------------ input files
\* A file of the input directory: its name, its Path.stem and the digits the
\* pattern (\d+)K\.gr captures in the name (<<>>: the pattern does not match).
F5 == [name |-> "5K.gr", stem |-> "5K", digits |-> <<5>>]
F10 == [name |-> "10K.gr", stem |-> "10K", digits |-> <<1, 0>>]
F10b == [name |-> "b10K.gr", stem |-> "b10K", digits |-> <<1, 0>>]

Files == {F5, F10, F10b}

\* int(<digits>) of a captured group.
RECURSIVE ParseInt(_)
ParseInt(ds) ==
    IF ds = <<>> THEN 0
    ELSE ParseInt(SubSeq(ds, 1, Len(ds) - 1)) * 10 + ds[Len(ds)]

\* re.findall(pattern, file.name) is non-empty.
HasKey(f) == f.digits # <<>>

\* int(re.findall(filename_order_pattern, file.name)[0])
OrderKey(f) == ParseInt(f.digits)

\* Every order in which Path.glob("*") may list the files of a directory.
RECURSIVE Listings(_)
Listings(S) ==
    IF S = {} THEN {<<>>}
    ELSE UNION {{<<f>> \o s : s \in Listings(S \ {f})} : f \in S}

\* One insertion of a stable sort: f goes after every element whose key is
\* not greater than its own.
RECURSIVE InsertByKey(_, _)
InsertByKey(s, f) ==
    IF s = <<>> THEN <<f>>
    ELSE IF OrderKey(s[Len(s)]) <= OrderKey(f) THEN Append(s, f)
    ELSE Append(InsertByKey(SubSeq(s, 1, Len(s) - 1), f), s[Len(s)])

\* sorted(files, key=...): stable, ascending by the numeric key.
RECURSIVE SortedFiles(_)
SortedFiles(listing) ==
    IF listing = <<>> THEN <<>>
    ELSE InsertByKey(SortedFiles(SubSeq(listing, 1, Len(listing) - 1)),
                     listing[Len(listing)])

\* s[:k]
Take(s, k) == SubSeq(s, 1, IF k < Len(s) THEN k ELSE Len(s))

\* s[k:] for a 0-based k
Drop(s, k) == SubSeq(s, k + 1, Len(s))

Range(s) == {s[i] : i \in 1..Len(s)}

\* The Path.stem of every file of a set.
Stems(S) == {f.stem : f \in S}

\* list.index(x), 0-based; x occurs in s.
IndexOf(s, x) == (CHOOSE i \in 1..Len(s) : s[i] = x /\ \A j \in 1..(i - 1) : s[j] # x) - 1

\* ------------------------------------------------------------- parameters
ParamNames == {"a_1", "s0"}

\* The values a recipe variable has before set_initial_variable_values.
EngineDefaults == [p \in ParamNames |-> 0]

\* The initial_variable_values handed to load_inputs.
InitialValues == [p \in ParamNames |-> IF p = "a_1" THEN 1 ELSE 2]

\* The refine_variable_names arguments of load_inputs that are explored:
\* None, [] and ["a_1"].
RefineArgs ==
    {[is_none |-> TRUE, names |-> {}],
     [is_none |-> FALSE, names |-> {}],
     [is_none |-> FALSE, names |-> {"a_1"}]}

\* load_inputs: refine_variable_names or [], initial_variable_values or {}
LoadInputs(refine_arg) ==
    [refine_variable_names |->
        IF refine_arg.is_none \/ refine_arg.names = {}
        THEN [is_none |-> FALSE, names |-> {}]
        ELSE refine_arg,
     initial_variable_values |-> InitialValues]

\* The local refine_variable_names of start_one_round when a fit starts.
RefineNames(inp) ==
    IF inp.refine_variable_names.is_none
    THEN DOMAIN inp.initial_variable_values
    ELSE inp.refine_variable_names.names

\* set_initial_variable_values(pv): the given values overwrite the engine's.
ApplyValues(pv) ==
    [p \in ParamNames |-> IF p \in DOMAIN pv THEN pv[p] ELSE EngineDefaults[p]]

\* refine_variables + save_results(mode="dict"): the result of one fit of
\* file f started from the applied values, with the names in free refined.
FitResult(f, pv, free) ==
    [variables |->
        [p \in ParamNames |->
            [value |-> IF p \in free
                       THEN (ApplyValues(pv)[p] + OrderKey(f)) % ValMod
                       ELSE ApplyValues(pv)[p],
             unc |-> OrderKey(f) % ValMod]]]

\* {name: pack["value"] for name, pack in variables.items()}
ValuesOf(result) ==
    [p \in DOMAIN result.variables |-> result.variables[p].value]

\* ------------------------------------------------------------------ state
VARIABLES
    dir,            \* the files now in input_data_dir
    arrived,        \* history: the files that have ever been in input_data_dir
    faults,         \* history: number of disturbances so far
    out,            \* output_result_dir: Path.stem of an input file -> saved result
    inputs,         \* self.inputs (the part the rounds read)
    known,          \* self.input_files_known
    completed,      \* self.input_files_completed
    running,        \* self.input_files_running
    has_last,       \* hasattr(self, "last_result_variables_values")
    last_vals,      \* self.last_result_variables_values
    adapter_start,  \* the values last given to adapter.set_initial_variable_values
    round_return,   \* what start_one_round returned last
    pc_main,        \* the caller: "idle", "batch_call", "batch", "join_fit", "join_input"
    last_call,      \* the method the caller called last, and its argument
    outcome,        \* how that call ended: "ok" or the exception it raised
    rpc,            \* start_one_round: "none", "for" (between fits), "fit" (in a fit)
    ridx,           \* position of the for loop in input_files_running (1-based)
    fpc,            \* fit_thread: "idle", "check", "round", "wait", "done", "dead"
    thread_error,   \* the exception that ended fit_thread ("none": none)
    ipc,            \* input_thread: "idle", "check", "prompt", "done", "dead"
    stop_event,     \* stop_event.is_set()
    cmd,            \* the text session.prompt returned last
    notice,         \* what input_thread printed last
    hist_fit,       \* history: the values the last successful fit of this runner produced
    hist_started,   \* history: the file whose fit started last since the caller
                    \* last positioned the ledger (new runner, set_start_input_file)
    hist_resume,    \* history: the values set_start_input_file loaded, if no fit followed
    rounds_in_call, \* history: rounds begun by the current start() call
    rounds_after_stop, \* history: rounds begun while stop_event was set
    hist_session    \* history: "first" (the runner is the first one), "restarted"
                    \* (a new runner with the same inputs, made when the runner
                    \* before it had fitted all its known files), "resumed" (that
                    \* runner was positioned at the first file without a saved
                    \* result), "off" (anything else: a fit failed, a file was
                    \* deleted, set_start_input_file was used in another way)

ledger == <<known, completed, running>>
carry == <<has_last, last_vals>>
threads == <<fpc, thread_error, ipc, stop_event, cmd, notice>>
hist == <<hist_fit, hist_started, hist_resume, rounds_in_call,
          rounds_after_stop, hist_session>>
env == <<dir, arrived, faults>>
vars == <<dir, arrived, faults, out, inputs, known, completed, running, has_last, last_vals,
          adapter_start, round_return, pc_main, last_call, outcome, rpc,
                   ridx, fpc,
          thread_error, ipc, stop_event, cmd, notice, hist_fit,
          hist_started, hist_resume, rounds_in_call, rounds_after_stop,
          hist_session>>

NoValues == [p \in {} |-> 0]
NoFile == [is_none |-> TRUE, file |-> F5]
NoFit == [is_none |-> TRUE, vals |-> NoValues]
Bump(n) == IF n < MaxCount THEN n + 1 ELSE MaxCount

\* Python's None as the value a call returns.
ReturnNone == [is_none |-> TRUE, results |-> <<>>]

\* __init__ followed by load_inputs, with an empty input directory.
Init ==
    /\ dir = {}
    /\ arrived = {}
    /\ faults = 0
    /\ out = [s \in {} |-> 0]
    /\ inputs \in {LoadInputs(a) : a \in RefineArgs}
    /\ known = <<>>
    /\ completed = <<>>
    /\ running = <<>>
    /\ has_last = FALSE
    /\ last_vals = NoValues
    /\ adapter_start = NoValues
    /\ round_return = ReturnNone
    /\ pc_main = "idle"
    /\ last_call = [method |-> "load_inputs", arg |-> ""]
    /\ outcome = "ok"
    /\ rpc = "none"
    /\ ridx = 0
    /\ fpc = "idle"
    /\ thread_error = "none"
    /\ ipc = "idle"
    /\ stop_event = FALSE
    /\ cmd = <<>>
    /\ notice = "none"
    /\ hist_fit = NoFit
    /\ hist_started = NoFile
    /\ hist_resume = NoFit
    /\ rounds_in_call = 0
    /\ rounds_after_stop = 0
    /\ hist_session = "first"

\* ------------------------------------------------------------ environment
\* A file of S that was never there appears in the input directory.
AddFileFrom(S) ==
    \E f \in S \ arrived :
        /\ dir' = dir \cup {f}
        /\ arrived' = arrived \cup {f}
        /\ UNCHANGED <<faults, out, inputs, ledger, carry, adapter_start,
                       round_return, pc_main,
                       last_call, outcome, rpc, ridx, threads, hist>>

AddFile == AddFileFrom(Files)

\* A file is deleted from the input directory.
RemoveFile ==
    \E f \in dir :
        /\ faults < MaxFaults
        /\ faults' = faults + 1
        /\ dir' = dir \ {f}
        /\ hist_session' = "off"
        /\ UNCHANGED <<arrived, out, inputs, ledger, carry, adapter_start,
                       round_return, pc_main,
                       last_call, outcome, rpc, ridx, threads, hist_fit,
                       hist_started, hist_resume, rounds_in_call,
                       rounds_after_stop>>

\* ----------------------------------------------------- check_for_new_data
OrderViolatedMissingOnly(kn, sorted) == Len(sorted) < Len(kn)

\* The comparison of lines 58-61: the known files are no longer the first
\* len(known) entries of the sorted listing.
OrderViolated(kn, sorted) == kn # Take(sorted, Len(kn))

NoNewDataNever(kn, sorted) == FALSE

\* The comparison of line 67: the sorted listing is the known list.
NoNewData(kn, sorted) == kn = sorted

PendingNothing(kn, comp) == <<>>

\* [f for f in known if f not in completed]
Pending(kn, comp) == SelectSeq(kn, LAMBDA f : f \notin Range(comp))

\* The body of check_for_new_data on one directory listing, for a runner
\* whose lists are kn, comp and run: the exception it raises ("ok": none)
\* and the known and running lists it leaves.
Rescan(kn, comp, run, listing) ==
    LET sorted == SortedFiles(listing) IN
    IF \E i \in 1..Len(listing) : ~HasKey(listing[i])
    THEN [err |-> "IndexError", known |-> kn, running |-> run]
    ELSE IF OrderViolated(kn, sorted)
    THEN [err |-> "RuntimeError", known |-> kn, running |-> run]
    ELSE IF NoNewData(kn, sorted)
    THEN [err |-> "ok", known |-> kn, running |-> run]
    ELSE [err |-> "ok", known |-> sorted, running |-> Pending(sorted, comp)]

\* check_for_new_data of the runner on one directory listing.
CheckForNewData(listing) == Rescan(known, completed, running, listing)

\* The caller calls check_for_new_data() directly; glob lists the directory
\* in the order listing.
CallCheckWith(listing) ==
    /\ pc_main = "idle"
    /\ LET res == CheckForNewData(listing) IN
        /\ known' = res.known
        /\ running' = res.running
        /\ outcome' = res.err
    /\ last_call' = [method |-> "check_for_new_data", arg |-> ""]
    /\ UNCHANGED <<env, out, inputs, completed, carry, adapter_start,
                   round_return, pc_main,
                   rpc, ridx, threads, hist>>

CallCheckForNewData == \E listing \in Listings(dir) : CallCheckWith(listing)

\* --------------------------------------------------- set_start_input_file
\* The file input_filename_to_result_filename names for an input file: the
\* <stem>_result.json that start_one_round writes for it.
ResultName(f) == f.stem

FirstCompleted(comp) == comp[1]

\* Line 89: self.input_files_completed[-1]
LastCompleted(comp) == comp[Len(comp)]

RejectUnknownAfterReset ==
    [err |-> "ValueError", completed |-> known, running |-> <<>>,
     has_last |-> has_last, last_vals |-> last_vals]

\* Lines 81-84: the ValueError for a file that is not in the known list is
\* raised before anything is assigned.
RejectUnknown ==
    [err |-> "ValueError", completed |-> completed, running |-> running,
     has_last |-> has_last, last_vals |-> last_vals]

\* set_start_input_file(f, ...): the exception it raises ("ok": none) and
\* the state it leaves.
SetStartInputFile(f) ==
    IF f \notin Range(known)
    THEN RejectUnknown
    ELSE LET start_index == IndexOf(known, f)
             comp == Take(known, start_index)
             run == Drop(known, start_index)
         IN  IF comp = <<>>
             THEN [err |-> "IndexError", completed |-> comp, running |-> run,
                   has_last |-> has_last, last_vals |-> last_vals]
             ELSE IF ResultName(LastCompleted(comp)) \notin DOMAIN out
             THEN [err |-> "FileNotFoundError", completed |-> comp,
                   running |-> run, has_last |-> has_last,
                   last_vals |-> last_vals]
             ELSE [err |-> "ok", completed |-> comp, running |-> run,
                   has_last |-> TRUE,
                   last_vals |-> ValuesOf(out[ResultName(LastCompleted(comp))])]

\* The caller calls set_start_input_file(f, ...) between rounds.
CallSetStartWith(f) ==
    /\ pc_main = "idle"
    /\ LET res == SetStartInputFile(f) IN
        /\ completed' = res.completed
        /\ running' = res.running
        /\ has_last' = res.has_last
        /\ last_vals' = res.last_vals
        /\ outcome' = res.err
        /\ hist_resume' = IF res.err = "ok"
                          THEN [is_none |-> FALSE, vals |-> res.last_vals]
                          ELSE hist_resume
        /\ hist_started' = IF res.err = "ValueError" THEN hist_started
                           ELSE NoFile
        /\ hist_session' =
             IF hist_session = "restarted"
             THEN IF /\ res.err = "ok"
                     /\ Stems(Range(res.completed)) = DOMAIN out
                  THEN "resumed" ELSE "off"
             ELSE IF res.err = "ValueError" THEN hist_session
             ELSE "off"
    /\ last_call' = [method |-> "set_start_input_file", arg |-> f.name]
    /\ UNCHANGED <<env, out, inputs, known, adapter_start, round_return,
                   pc_main, rpc, ridx,
                   threads, hist_fit, rounds_in_call, rounds_after_stop>>

CallSetStartInputFile == \E f \in Files : CallSetStartWith(f)

\* ------------------------------------------------------- start_one_round
AfterBatchRoundAgain == "batch_call"

\* Where start("batch") goes when its start_one_round call has returned.
AfterBatchRound == "idle"

\* start_one_round leaves its caller: kind is "continue" (the for loop goes
\* on), "ok" (it returned) or the exception it raised.  In batch mode the
\* exception reaches the caller of start; in stream mode it ends fit_thread.
RoundExit(kind) ==
    IF pc_main \in {"batch_call", "batch"}
    THEN /\ pc_main' = IF kind = "continue" THEN "batch"
                       ELSE IF kind = "ok" THEN AfterBatchRound ELSE "idle"
         /\ outcome' = IF kind = "continue" THEN outcome ELSE kind
         /\ UNCHANGED <<fpc, thread_error>>
    ELSE /\ fpc' = IF kind = "continue" THEN "round"
                   ELSE IF kind = "ok" THEN "wait" ELSE "dead"
         /\ thread_error' = IF kind \in {"continue", "ok"} THEN thread_error
                            ELSE kind
         /\ UNCHANGED <<pc_main, outcome>>

\* Line 112: return None, when the running list is empty.
RoundReturnEmpty == ReturnNone

\* start_one_round ends after line 145 without a return statement: the
\* call returns None.
RoundReturn == ReturnNone

AtRoundStartAnytime ==
    \/ pc_main = "batch_call"
    \/ pc_main = "join_fit" /\ fpc = "round"

\* A thread is about to execute the first line of start_one_round.
AtRoundStart ==
    \/ pc_main = "batch_call"
    \/ pc_main = "join_fit" /\ fpc = "round" /\ rpc = "none"

\* Lines 101-112: the rescan, for which glob lists the directory in the
\* order listing, then the test for an empty running list.
RoundBeginWith(listing) ==
    /\ AtRoundStart
    /\ LET res == CheckForNewData(listing) IN
        /\ known' = res.known
        /\ running' = res.running
        /\ IF res.err # "ok"
           THEN rpc' = "none" /\ ridx' = 0 /\ RoundExit(res.err)
           ELSE IF res.running = <<>>
           THEN rpc' = "none" /\ ridx' = 0 /\ RoundExit("ok")
           ELSE rpc' = "for" /\ ridx' = 1 /\ RoundExit("continue")
        /\ round_return' = IF res.err = "ok" /\ res.running = <<>>
                           THEN RoundReturnEmpty ELSE round_return
    /\ rounds_in_call' = Bump(rounds_in_call)
    /\ rounds_after_stop' = IF stop_event THEN Bump(rounds_after_stop)
                            ELSE rounds_after_stop
    /\ UNCHANGED <<env, out, inputs, completed, carry, adapter_start,
                   last_call, ipc, stop_event, cmd, notice, hist_fit,
                   hist_started, hist_resume, hist_session>>

RoundBegin == \E listing \in Listings(dir) : RoundBeginWith(listing)

StartValuesInitial == inputs.initial_variable_values

\* The values set_initial_variable_values receives (lines 125-129).
StartValues ==
    IF has_last THEN last_vals ELSE inputs.initial_variable_values

\* Lines 113-132 for the next file of the loop: the engine is built, the
\* carry-over is applied and the fit is started.
FitBegin ==
    /\ rpc = "for"
    /\ ridx <= Len(running)
    /\ has_last' = TRUE
    /\ last_vals' = StartValues
    /\ adapter_start' = StartValues
    /\ rpc' = "fit"
    /\ hist_started' = [is_none |-> FALSE, file |-> running[ridx]]
    /\ UNCHANGED <<env, out, inputs, ledger, round_return, pc_main, last_call,
                   outcome, ridx, threads, hist_fit, hist_resume, rounds_in_call,
                   rounds_after_stop, hist_session>>

\* Lines 114-124 raise: the engine cannot be built for the next file.
FitInitFails ==
    /\ rpc = "for"
    /\ ridx <= Len(running)
    /\ faults < MaxFaults
    /\ faults' = faults + 1
    /\ rpc' = "none"
    /\ ridx' = 0
    /\ hist_started' = [is_none |-> FALSE, file |-> running[ridx]]
    /\ hist_session' = "off"
    /\ RoundExit("FitFailure")
    /\ UNCHANGED <<dir, arrived, out, inputs, ledger, carry, adapter_start,
                   round_return,
                   last_call, ipc, stop_event, cmd, notice, hist_fit,
                   hist_resume, rounds_in_call, rounds_after_stop>>

\* The ledger after a successful fit of file f (line 143).
MarkCompleted(f) == Append(completed, f)

\* Lines 132-144: the refinement succeeds, the result is saved and becomes
\* the carry-over, the file is appended to the completed list.
FitEnd ==
    /\ rpc = "fit"
    /\ LET f == running[ridx]
           results == FitResult(f, adapter_start, RefineNames(inputs))
       IN  /\ out' = [s \in DOMAIN out \cup {f.stem} |->
                        IF s = f.stem THEN results ELSE out[s]]
           /\ last_vals' = ValuesOf(results)
           /\ hist_fit' = [is_none |-> FALSE, vals |-> ValuesOf(results)]
           /\ hist_resume' = NoFit
           /\ completed' = MarkCompleted(f)
    /\ rpc' = "for"
    /\ ridx' = ridx + 1
    /\ UNCHANGED <<env, inputs, known, running, has_last, adapter_start,
                   round_return,
                   pc_main, last_call, outcome, threads, hist_started,
                   rounds_in_call, rounds_after_stop, hist_session>>

FitFailsAfterAppend ==
    /\ rpc = "fit"
    /\ faults < MaxFaults
    /\ faults' = faults + 1
    /\ rpc' = "none"
    /\ ridx' = 0
    /\ hist_session' = "off"
    /\ completed' = MarkCompleted(running[ridx])
    /\ last_vals' = NoValues
    /\ RoundExit("FitFailure")
    /\ UNCHANGED <<dir, arrived, out, inputs, known, running, has_last,
                   adapter_start, round_return, last_call, ipc, stop_event,
                   cmd, notice, hist_fit, hist_started, hist_resume,
                   rounds_in_call, rounds_after_stop>>

\* Lines 132-138 raise: the refinement or the saving of its result fails.
FitFails ==
    /\ rpc = "fit"
    /\ faults < MaxFaults
    /\ faults' = faults + 1
    /\ rpc' = "none"
    /\ ridx' = 0
    /\ hist_session' = "off"
    /\ RoundExit("FitFailure")
    /\ UNCHANGED <<dir, arrived, out, inputs, ledger, carry, adapter_start,
                   round_return,
                   last_call, ipc, stop_event, cmd, notice, hist_fit,
                   hist_started, hist_resume, rounds_in_call,
                   rounds_after_stop>>

\* The running list when the for loop has ended (line 145).
RunningAfterRound == <<>>

\* Line 145: the loop is over, the running list is emptied, the round returns.
RoundEnd ==
    /\ rpc = "for"
    /\ ridx > Len(running)
    /\ running' = RunningAfterRound
    /\ rpc' = "none"
    /\ ridx' = 0
    /\ round_return' = RoundReturn
    /\ RoundExit("ok")
    /\ UNCHANGED <<env, out, inputs, known, completed, carry, adapter_start,
                   last_call, ipc, stop_event, cmd, notice, hist>>

\* ------------------------------------------------------------------ start
\* The modes start is called with; "Batch" is none of the two it knows.
Modes == {"batch", "stream", "Batch"}

ModeDispatchLenient(mode) ==
    IF mode = "stream" THEN "join_fit" ELSE "batch_call"

\* start(mode): where the caller goes (lines 148, 150, 182).
ModeDispatch(mode) ==
    IF mode = "batch" THEN "batch_call"
    ELSE IF mode = "stream" THEN "join_fit"
    ELSE "ValueError"

\* The caller calls start(mode).  In stream mode a new stop_event is made
\* and input_thread and fit_thread are started (lines 151-179).
CallStart(mode) ==
    /\ pc_main = "idle"
    /\ last_call' = [method |-> "start", arg |-> mode]
    /\ IF ModeDispatch(mode) = "ValueError"
       THEN /\ outcome' = "ValueError"
            /\ UNCHANGED <<pc_main, threads>>
       ELSE /\ pc_main' = ModeDispatch(mode)
            /\ outcome' = "pending"
            /\ IF ModeDispatch(mode) = "join_fit"
               THEN /\ fpc' = "check"
                    /\ ipc' = "check"
                    /\ stop_event' = FALSE
                    /\ thread_error' = "none"
                    /\ cmd' = <<>>
                    /\ notice' = "none"
               ELSE UNCHANGED threads
    /\ rounds_in_call' = 0
    /\ rounds_after_stop' = 0
    /\ UNCHANGED <<env, out, inputs, ledger, carry, adapter_start,
                   round_return, rpc, ridx,
                   hist_fit, hist_started, hist_resume, hist_session>>

FitLoopContinuesAlways == TRUE

\* The loop condition of stream_loop (line 155).
FitLoopContinues == ~stop_event

\* stream_loop, line 155: while not stop_event.is_set()
LoopCheck ==
    /\ fpc = "check"
    /\ fpc' = IF FitLoopContinues THEN "round" ELSE "done"
    /\ UNCHANGED <<env, out, inputs, ledger, carry, adapter_start,
                   round_return, pc_main,
                   last_call, outcome, rpc, ridx, thread_error, ipc,
                   stop_event, cmd, notice, hist>>

\* stream_loop, line 157: stop_event.wait(1) returns, by timeout or because
\* the event is set.
LoopWait ==
    /\ fpc = "wait"
    /\ fpc' = "check"
    /\ UNCHANGED <<env, out, inputs, ledger, carry, adapter_start,
                   round_return, pc_main,
                   last_call, outcome, rpc, ridx, thread_error, ipc,
                   stop_event, cmd, notice, hist>>

\* What the operator may type at the prompt, as sequences of characters.
STOP == <<"S", "T", "O", "P">>
Commands ==
    {STOP,
     <<" ">> \o STOP \o <<"\t">>,
     <<"s", "t", "o", "p">>,
     STOP \o <<" ", "X">>,
     <<" ">>}

Whitespace == {" ", "\t", "\n"}

\* str.strip(): leading and trailing whitespace removed.
RECURSIVE LStrip(_)
LStrip(s) ==
    IF s # <<>> /\ s[1] \in Whitespace THEN LStrip(SubSeq(s, 2, Len(s)))
    ELSE s

RECURSIVE RStrip(_)
RStrip(s) ==
    IF s # <<>> /\ s[Len(s)] \in Whitespace
    THEN RStrip(SubSeq(s, 1, Len(s) - 1))
    ELSE s

Strip(s) == RStrip(LStrip(s))

\* str.upper() of one of the characters an operator line is made of.
Upper(ch) ==
    IF ch = "s" THEN "S" ELSE IF ch = "t" THEN "T"
    ELSE IF ch = "o" THEN "O" ELSE IF ch = "p" THEN "P" ELSE ch

IsStopCommandAnyCase(c) ==
    [i \in 1..Len(Strip(c)) |-> Upper(Strip(c)[i])] = STOP

\* Line 166: cmd.strip() == "STOP"
IsStopCommand(c) == Strip(c) = STOP

InputLoopContinuesAlways == TRUE

\* The loop condition of input_thread (line 164).
InputLoopContinues == ~stop_event

\* input_thread, line 164: while not stop_event.is_set()
InputCheck ==
    /\ ipc = "check"
    /\ ipc' = IF InputLoopContinues THEN "prompt" ELSE "done"
    /\ cmd' = <<>>
    /\ UNCHANGED <<env, out, inputs, ledger, carry, adapter_start,
                   round_return, pc_main,
                   last_call, outcome, rpc, ridx, fpc, thread_error,
                   stop_event, notice, hist>>

\* input_thread, lines 165-174: the operator enters a line.
InputCommand ==
    /\ ipc = "prompt"
    /\ \E c \in Commands :
        /\ cmd' = c
        /\ IF IsStopCommand(c)
           THEN stop_event' = TRUE /\ notice' = "stopping"
           ELSE stop_event' = stop_event /\ notice' = "unrecognized"
    /\ ipc' = "check"
    /\ UNCHANGED <<env, out, inputs, ledger, carry, adapter_start,
                   round_return, pc_main,
                   last_call, outcome, rpc, ridx, fpc, thread_error, hist>>

\* input_thread, line 165: the prompt raises EOFError or KeyboardInterrupt
\* (the input is closed), which ends the thread.
InputEOF ==
    /\ ipc = "prompt"
    /\ ipc' = "dead"
    /\ UNCHANGED <<env, out, inputs, ledger, carry, adapter_start,
                   round_return, pc_main,
                   last_call, outcome, rpc, ridx, fpc, thread_error,
                   stop_event, cmd, notice, hist>>

\* A thread has ended: it returned or an exception ended it.
Terminated(pc) == pc \in {"done", "dead"}

\* Line 180: fit_thread.join() returns.
JoinFit ==
    /\ pc_main = "join_fit"
    /\ Terminated(fpc)
    /\ pc_main' = "join_input"
    /\ UNCHANGED <<env, out, inputs, ledger, carry, adapter_start,
                   round_return, last_call,
                   outcome, rpc, ridx, threads, hist>>

\* Line 181: input_thread.join() returns, and start("stream") with it.
JoinInput ==
    /\ pc_main = "join_input"
    /\ Terminated(ipc)
    /\ pc_main' = "idle"
    /\ outcome' = "ok"
    /\ fpc' = "idle"
    /\ ipc' = "idle"
    /\ UNCHANGED <<env, out, inputs, ledger, carry, adapter_start,
                   round_return, last_call,
                   rpc, ridx, thread_error, stop_event, cmd, notice, hist>>

\* A new process: SequentialPDFFitRunner() and load_inputs(...) over the
\* same input and output directories.
Restart ==
    /\ pc_main = "idle"
    /\ faults < MaxFaults
    /\ faults' = faults + 1
    /\ inputs' \in {LoadInputs(a) : a \in RefineArgs}
    /\ known' = <<>>
    /\ completed' = <<>>
    /\ running' = <<>>
    /\ has_last' = FALSE
    /\ last_vals' = NoValues
    /\ adapter_start' = NoValues
    /\ round_return' = ReturnNone
    /\ last_call' = [method |-> "load_inputs", arg |-> ""]
    /\ outcome' = "ok"
    /\ fpc' = "idle"
    /\ thread_error' = "none"
    /\ ipc' = "idle"
    /\ stop_event' = FALSE
    /\ cmd' = <<>>
    /\ notice' = "none"
    /\ hist_fit' = NoFit
    /\ hist_started' = NoFile
    /\ hist_resume' = NoFit
    /\ rounds_in_call' = 0
    /\ rounds_after_stop' = 0
    /\ hist_session' = IF /\ hist_session # "off"
                          /\ inputs' = inputs
                          /\ known # <<>>
                          /\ completed = known
                          /\ running = <<>>
                          /\ Stems(Range(completed)) = DOMAIN out
                       THEN "restarted" ELSE "off"
    /\ UNCHANGED <<dir, arrived, out, pc_main, rpc, ridx>>

\* The runner driven by one caller: direct calls and batch rounds.
BatchNext ==
    \/ AddFile
    \/ RemoveFile
    \/ CallCheckForNewData
    \/ CallSetStartInputFile
    \/ \E mode \in {"batch", "Batch"} : CallStart(mode)
    \/ RoundBegin
    \/ FitBegin
    \/ FitInitFails
    \/ FitEnd
    \/ FitFails
    \/ RoundEnd
    \/ Restart

\* The runner in stream mode: fit_thread, input_thread and the joining caller.
StreamNext ==
    \/ AddFile
    \/ RemoveFile
    \/ CallStart("stream")
    \/ RoundBegin
    \/ FitBegin
    \/ FitInitFails
    \/ FitEnd
    \/ FitFails
    \/ RoundEnd
    \/ LoopCheck
    \/ LoopWait
    \/ InputCheck
    \/ InputCommand
    \/ InputEOF
    \/ JoinFit
    \/ JoinInput

Next == BatchNext \/ StreamNext

\* Every operation of the runner, in every mode.
Spec == Init /\ [][Next]_vars

\* The operations a single-threaded caller reaches.
BatchSpec == Init /\ [][BatchNext]_vars

\* The operations of stream mode.
StreamSpec == Init /\ [][StreamNext]_vars

\* The files that may arrive in the behaviours checked for liveness.
LiveFiles == {F5, F10}

\* Stream mode over the directory in which only LiveFiles arrive.
StreamLiveNext ==
    \/ AddFileFrom(LiveFiles)
    \/ RemoveFile
    \/ CallStart("stream")
    \/ RoundBegin
    \/ FitBegin
    \/ FitInitFails
    \/ FitEnd
    \/ FitFails
    \/ RoundEnd
    \/ LoopCheck
    \/ LoopWait
    \/ InputCheck
    \/ InputCommand
    \/ InputEOF
    \/ JoinFit
    \/ JoinInput

\* The steps fit_thread takes by itself; every fit ends, well or not.
FitThreadStep ==
    \/ LoopCheck
    \/ LoopWait
    \/ RoundBegin
    \/ FitBegin
    \/ FitEnd
    \/ RoundEnd

\* Stream mode under the scheduling of threads: a thread that can take a
\* step takes one.  The prompt waits for the operator, so InputCommand and
\* InputEOF are under no fairness.
StreamFairSpec ==
    /\ Init
    /\ [][StreamLiveNext]_vars
    /\ WF_vars(FitThreadStep)
    /\ WF_vars(InputCheck)
    /\ WF_vars(JoinFit)
    /\ WF_vars(JoinInput)

\* ----------------------------------------------------------------- claims
IsPrefix(s, t) == Len(s) <= Len(t) /\ s = SubSeq(t, 1, Len(s))

\* A step of check_for_new_data, called directly or by a batch round, for
\* which glob listed the directory in the order listing.
RescanStep(listing) == CallCheckWith(listing) \/ RoundBeginWith(listing)

\* C1: in every reachable state input_files_completed is a prefix of
\* input_files_known, in the same order: files complete in arrival order,
\* none out of order and none twice.
C1_CompletedPrefixOfKnown == IsPrefix(completed, known)

\* C2: a rescan whose sorted listing does not begin with the previously
\* known files (one of them is missing, or a new file sorts before the last
\* known one) raises the ordering-violation RuntimeError and leaves known,
\* completed and running exactly as they were.
C2_OrderViolationRaises ==
    [][\A listing \in Listings(dir) :
        (/\ RescanStep(listing)
         /\ known # Take(SortedFiles(listing), Len(known)))
        => (/\ outcome' = "RuntimeError"
            /\ known' = known
            /\ completed' = completed
            /\ running' = running)]_vars

\* C2 witness: a rescan raised after a completed file was deleted from the
\* directory.
C2_Witness ==
    /\ outcome = "RuntimeError"
    /\ last_call.method = "check_for_new_data"
    /\ \E f \in Range(completed) : f \notin dir /\ f.stem \in DOMAIN out

\* C3: when the fit of a pending file fails, the round aborts with an
\* error, the files before it in the round are completed, the failed file
\* and the files after it are pending and not completed, and the files
\* already completed are no longer pending.
C3_FailedRoundLeavesRestPending ==
    (pc_main = "idle" /\ outcome = "FitFailure")
    => (/\ ~hist_started.is_none
        /\ running # <<>>
        /\ running[1] = hist_started.file
        /\ Range(running) \cap Range(completed) = {}
        /\ Range(known) = Range(running) \cup Range(completed))

\* A step that starts the fit of the next file of the running list.
FitStartStep == rpc = "for" /\ rpc' = "fit"

\* C4: within and across rounds files are fitted in ascending order of
\* their keys and strictly one after another: when the fit of a file
\* starts, no file completed so far has a greater key, and the file whose
\* fit started before it, if it is another file, has had its result saved
\* and has been appended to the completed list.
C4_AscendingOneAfterAnother ==
    [][FitStartStep =>
        LET g == running[ridx] IN
        /\ \A i \in 1..Len(completed) : OrderKey(completed[i]) <= OrderKey(g)
        /\ (~hist_started.is_none /\ hist_started.file # g)
            => (/\ hist_started.file \in Range(completed)
                /\ hist_started.file.stem \in DOMAIN out)]_vars

\* C5 as stated: each fit starts from the configured initial values if no
\* fit of this runner has succeeded yet, and otherwise from exactly the
\* values the immediately preceding successful fit produced.
C5_StartFromPrecedingFit ==
    rpc = "fit"
    => adapter_start = IF hist_fit.is_none
                       THEN inputs.initial_variable_values
                       ELSE hist_fit.vals

\* C5 as amended: each fit starts from the carry-over's current values:
\* the values set_start_input_file loaded from the saved result of the last
\* completed file if it was called since the last successful fit, else the
\* values the immediately preceding successful fit produced, else (no fit
\* of this runner has succeeded) the configured initial values.
C5_StartFromCarryOver ==
    rpc = "fit"
    => /\ has_last
       /\ adapter_start = last_vals
       /\ adapter_start = IF ~hist_resume.is_none THEN hist_resume.vals
                          ELSE IF ~hist_fit.is_none THEN hist_fit.vals
                          ELSE inputs.initial_variable_values

\* C5 witness: a fit of a second round has started from the values the last
\* fit of the round before it produced, which are not the initial values.
C5_Witness ==
    /\ rpc = "fit"
    /\ ridx = 1
    /\ completed # <<>>
    /\ IsPrefix(completed, known)
    /\ running[1] \notin Range(completed)
    /\ hist_resume.is_none
    /\ ~hist_fit.is_none
    /\ adapter_start = hist_fit.vals
    /\ adapter_start # inputs.initial_variable_values

\* A step that ends a call of start("batch"): it returns or raises.
BatchEndStep == pc_main \in {"batch_call", "batch"} /\ pc_main' = "idle"

\* The first step of the round of a start("batch") call.
BatchRoundBeginStep == pc_main = "batch_call" /\ pc_main' # "batch_call"

\* What a batch call leaves alone when it has nothing to fit.
NothingFitted ==
    /\ rpc' = "none"
    /\ UNCHANGED <<known, completed, running, has_last, last_vals, out,
                   adapter_start>>

\* C9 as stated: a batch call executes exactly one round and then ends,
\* and with an empty input directory it fits nothing, raises no error and
\* leaves the ledger and the carry-over unchanged.
C9_BatchOneRoundEmptyDir ==
    [][/\ BatchEndStep => rounds_in_call' = 1
       /\ (BatchRoundBeginStep /\ dir = {})
          => (pc_main' = "idle" /\ outcome' = "ok" /\ NothingFitted)]_vars

\* C9 as amended: a batch call executes exactly one round and then ends,
\* and with an empty input directory and no file known from an earlier
\* rescan it fits nothing, raises no error and leaves the ledger and the
\* carry-over unchanged.
C9_BatchOneRoundFreshEmptyDir ==
    [][/\ BatchEndStep => rounds_in_call' = 1
       /\ (BatchRoundBeginStep /\ dir = {} /\ known = <<>>)
          => (pc_main' = "idle" /\ outcome' = "ok" /\ NothingFitted)]_vars

\* C9 witness: a batch call over an empty directory has returned after its
\* one round.
C9_Witness ==
    /\ pc_main = "idle"
    /\ last_call = [method |-> "start", arg |-> "batch"]
    /\ outcome = "ok"
    /\ rounds_in_call = 1
    /\ arrived = {}
    /\ known = <<>>

\* C10: for every file f of the known list, set_start_input_file(f) ends
\* without error and leaves completed = the known files before f, running =
\* f and the known files after it, and the carry-over = the "value" fields
\* of the saved result of the last completed file.
C10_ResumeFromAnyKnownFile ==
    [][\A f \in Range(known) :
        CallSetStartWith(f)
        => (/\ outcome' = "ok"
            /\ completed' = Take(known, IndexOf(known, f))
            /\ running' = Drop(known, IndexOf(known, f))
            /\ has_last'
            /\ completed' # <<>>
            /\ completed'[Len(completed')].stem \in DOMAIN out
            /\ last_vals' =
                 [p \in ParamNames |->
                    out[completed'[Len(completed')].stem].variables[p].value])
      ]_vars

\* fit_thread executes the first line of start_one_round.
StreamRoundBeginStep ==
    /\ fpc = "round"
    /\ rpc = "none"
    /\ (fpc' # "round" \/ rpc' # "none")

\* start("stream") returns to its caller.
StreamReturnStep == pc_main = "join_input" /\ pc_main' = "idle"

\* C6 as stated: once stop_event is set the polling loop finishes the round
\* it is executing and starts no further round, and start returns only
\* after fit_thread and input_thread have both ended.
C6_NoRoundAfterStop ==
    [][/\ stop_event => ~StreamRoundBeginStep
       /\ StreamReturnStep => (Terminated(fpc) /\ Terminated(ipc))]_vars

\* C6 as amended: once stop_event is set the loop condition of the polling
\* loop is never passed again, so that the only round that can still begin
\* is one whose loop condition was passed before the event was set (at most
\* one); setting the event interrupts no fit, fit_thread returns only at
\* its loop condition, between rounds; and start returns only after
\* fit_thread and input_thread have both ended.
C6_NoLoopPassAfterStop ==
    [][/\ (fpc = "check" /\ stop_event) => fpc' # "round"
       /\ rounds_after_stop' <= 1
       /\ (~stop_event /\ stop_event')
          => (rpc' = rpc /\ ridx' = ridx /\ fpc' = fpc /\ running' = running)
       /\ (fpc # "done" /\ fpc' = "done") => (fpc = "check" /\ rpc = "none")
       /\ StreamReturnStep => (Terminated(fpc) /\ Terminated(ipc))]_vars

\* C6 witness: start("stream") has returned after a round that began when
\* stop_event was already set, and that round fitted a file.
C6_Witness ==
    /\ pc_main = "idle"
    /\ last_call = [method |-> "start", arg |-> "stream"]
    /\ outcome = "ok"
    /\ stop_event
    /\ thread_error = "none"
    /\ rounds_after_stop = 1
    /\ completed # <<>>

\* c is STOP with nothing but whitespace before and after it.
TrimsToStop(c) ==
    \E i \in 1..Len(c) : \E j \in i..Len(c) :
        /\ SubSeq(c, i, j) = <<"S", "T", "O", "P">>
        /\ \A k \in 1..Len(c) : (k < i \/ k > j) => c[k] \in {" ", "\t", "\n"}

\* input_thread has read one line from the prompt and handled it.
InputStep == ipc = "prompt" /\ ipc' = "check"

\* C7: stop_event is set only by an operator line that is STOP, in capitals,
\* once the whitespace around it is trimmed, and such a line sets it; any
\* other line is answered "unrecognized", leaves the event unset and the
\* ledger, the carry-over and the results untouched, and does not disturb
\* the polling loop.
C7_OnlyStopSetsFlag ==
    [][/\ (~stop_event /\ stop_event') => (InputStep /\ TrimsToStop(cmd'))
       /\ (InputStep /\ TrimsToStop(cmd'))
          => (stop_event' /\ notice' = "stopping")
       /\ (InputStep /\ ~TrimsToStop(cmd'))
          => (/\ notice' = "unrecognized"
              /\ ~stop_event'
              /\ UNCHANGED <<known, completed, running, has_last, last_vals,
                             out, fpc, rpc, ridx, pc_main>>)]_vars

\* C7 witness: the operator typed stop in lowercase while a fit was running:
\* the line is reported unrecognized, the event is unset, the fit goes on.
C7_Witness ==
    /\ cmd = <<"s", "t", "o", "p">>
    /\ notice = "unrecognized"
    /\ ~stop_event
    /\ fpc = "round"
    /\ rpc = "fit"

\* C8: in stream mode, once the operator has typed STOP (stop_event is set)
\* start eventually returns: input_thread and fit_thread end, after at most
\* the round in progress, with no further operator input.
C8_StopLeadsToReturn ==
    (stop_event /\ pc_main \in {"join_fit", "join_input"})
    ~> (pc_main = "idle" /\ outcome = "ok")

\* C8 witness: start("stream") has returned after the operator typed STOP
\* while a round was fitting a file.
C8_Witness ==
    /\ pc_main = "idle"
    /\ last_call = [method |-> "start", arg |-> "stream"]
    /\ outcome = "ok"
    /\ stop_event
    /\ notice = "stopping"
    /\ thread_error = "none"
    /\ rounds_after_stop = 0
    /\ completed # <<>>

\* C11: set_start_input_file called with a file that is not in the known
\* list raises ValueError (the unknown-file error) and leaves the known,
\* completed and running lists and the carry-over as they were.
C11_UnknownFileRejected ==
    [][\A f \in Files :
        (CallSetStartWith(f) /\ f \notin Range(known))
        => (/\ outcome' = "ValueError"
            /\ UNCHANGED <<known, completed, running, has_last, last_vals>>)
      ]_vars

\* C11 witness: the call was rejected by a runner that has known files,
\* one of them completed, and a carry-over.
C11_Witness ==
    /\ outcome = "ValueError"
    /\ last_call.method = "set_start_input_file"
    /\ \E f \in Files : f.name = last_call.arg /\ f \notin Range(known)
    /\ completed # <<>>
    /\ completed # known
    /\ has_last

\* The carry-over one uninterrupted batch leaves when it fits the files of
\* the sequence files one after another, the first from the values vals.
RECURSIVE BatchCarry(_, _, _)
BatchCarry(files, vals, free) ==
    IF files = <<>> THEN vals
    ELSE BatchCarry(Tail(files),
                    ValuesOf(FitResult(Head(files), vals, free)), free)

\* The batch call of a resumed runner has returned.
ResumedBatchDone ==
    /\ hist_session = "resumed"
    /\ pc_main = "idle"
    /\ last_call = [method |-> "start", arg |-> "batch"]
    /\ outcome = "ok"

\* C12: resumption equivalence.  A runner fits files 1..k and saves their
\* results; a new runner with the same inputs rescans, is positioned by
\* set_start_input_file at file k+1 and completes the rest in batch rounds
\* without a failure.  It ends with the completed list and the carry-over
\* that one uninterrupted batch over all the known files ends with.
C12_ResumeEqualsUninterrupted ==
    ResumedBatchDone
    => (/\ completed = known
        /\ has_last
        /\ last_vals = BatchCarry(known, inputs.initial_variable_values,
                                  RefineNames(inputs)))

\* C12 witness: the resumed runner has completed three files, two of them
\* fitted by the runner before it, and its carry-over is not the initial one.
C12_Witness ==
    /\ ResumedBatchDone
    /\ Len(known) = 3
    /\ completed = known
    /\ hist_started = [is_none |-> FALSE, file |-> known[3]]
    /\ last_vals # inputs.initial_variable_values

\* check_for_new_data called once more, in the state a step leaves.
RescanAgain(listing) == Rescan(known', completed', running', listing)

\* C13: the rescan is idempotent.  After a direct call of check_for_new_data
\* a second call over the unchanged directory, listed in the same order,
\* ends as the first did and leaves the known, completed and running lists
\* the first call left; when the first call returned without error this is
\* so in whatever order glob lists the directory the second time; and a
\* rescan whose sorted listing is the known list changes nothing and raises
\* nothing.
C13_RescanIdempotent ==
    [][\A l1 \in Listings(dir) :
        /\ CallCheckWith(l1)
           => (/\ RescanAgain(l1).err = outcome'
               /\ RescanAgain(l1).known = known'
               /\ RescanAgain(l1).running = running'
               /\ outcome' = "ok"
                  => \A l2 \in Listings(dir) :
                        /\ RescanAgain(l2).known = known'
                        /\ RescanAgain(l2).running = running'
               /\ completed' = completed)
        /\ (RescanStep(l1) /\ SortedFiles(l1) = known)
           => (/\ UNCHANGED <<known, completed, running>>
               /\ CallCheckWith(l1) => outcome' = "ok")]_vars

\* C13 witness: a rescan has returned over a directory all of whose files
\* are known, some of them completed and some pending: a second rescan finds
\* the listing equal to the known list.
C13_Witness ==
    /\ last_call.method = "check_for_new_data"
    /\ outcome = "ok"
    /\ Range(known) = dir
    /\ completed # <<>>
    /\ running # <<>>
    /\ running = Pending(known, completed)

\* A step that saves the result of the fit of the file running[ridx].
SaveResultStep == rpc = "fit" /\ out' # out

\* C14: over the rounds of one runner, a round begun after a failed round
\* included, no file is fitted again once it is in the completed list, and
\* the <stem>_result.json of a completed file is not written again.
C14_ResultWrittenOnce ==
    [][/\ FitStartStep => running[ridx] \notin Range(completed)
       /\ SaveResultStep
          => ~(/\ running[ridx] \in Range(completed)
               /\ ResultName(running[ridx]) \in DOMAIN out)]_vars

\* C15: start(mode) with a mode that is neither "batch" nor "stream" raises
\* ValueError (the invalid-mode error) at once: no rescan, no fit, no thread
\* is started, and the ledger, the carry-over and the output directory are
\* unchanged.
C15_InvalidModeRejected ==
    [][\A mode \in Modes \ {"batch", "stream"} :
        CallStart(mode)
        => (/\ outcome' = "ValueError"
            /\ pc_main' = "idle"
            /\ rounds_in_call' = 0
            /\ UNCHANGED <<dir, out, known, completed, running, has_last,
                           last_vals, adapter_start, rpc, ridx, fpc, ipc,
                           thread_error, stop_event>>)]_vars

\* C15 witness: start("Batch") was rejected by a runner that has a pending
\* file and a completed one; nothing was fitted.
C15_Witness ==
    /\ last_call = [method |-> "start", arg |-> "Batch"]
    /\ outcome = "ValueError"
    /\ pc_main = "idle"
    /\ rpc = "none"
    /\ running # <<>>
    /\ completed # <<>>
    /\ running[1] \notin Range(completed)

\* A step in which start_one_round returns to its caller without raising.
RoundReturnsStep ==
    /\ rpc' = "none"
    /\ \/ pc_main \in {"batch_call", "batch"} /\ pc_main' = "idle"
          /\ outcome' = "ok"
       \/ fpc = "round" /\ fpc' = "wait"

\* The number of files the round that returns in this step has completed.
FitsOfRound == IF rpc = "for" THEN Len(running) ELSE 0

\* C16: a round returns the list of the results of its fits, in the order
\* of the fits: as many as it completed files, and the empty list when the
\* running list was empty.
C16_RoundReturnsResults ==
    [][RoundReturnsStep
       => (/\ ~round_return'.is_none
           /\ Len(round_return'.results) = FitsOfRound)]_vars

\* The exceptions a round raises.
RoundErrors == {"RuntimeError", "FitFailure", "IndexError"}

\* A step in which start_one_round is left by an exception.
RoundRaisesStep ==
    \/ rpc = "fit" /\ rpc' = "none"
    \/ rpc = "for" /\ ridx <= Len(running) /\ rpc' = "none"
    \/ AtRoundStart /\ rpc' = "none"
          /\ \E listing \in Listings(dir) :
                /\ RoundBeginWith(listing)
                /\ CheckForNewData(listing).err # "ok"

\* C17: no error of a round is swallowed and nothing is retried.  In batch
\* mode the exception reaches the caller of start.  In stream mode it ends
\* the polling loop (no round begins after it) and it is surfaced: the
\* start("stream") call in which it happened does not return as if nothing
\* had happened.
C17_ErrorsSurface ==
    [][/\ (RoundRaisesStep /\ pc_main \in {"batch_call", "batch"})
          => (pc_main' = "idle" /\ outcome' \in RoundErrors)
       /\ (RoundRaisesStep /\ pc_main = "join_fit")
          => (fpc' = "dead" /\ thread_error' \in RoundErrors)
       /\ thread_error # "none" => ~StreamRoundBeginStep
       /\ (StreamReturnStep /\ thread_error # "none")
          => outcome' \in RoundErrors]_vars

\* No round is in progress: the caller is between calls.
AtRoundBoundary == pc_main = "idle" /\ rpc = "none"

\* C18: at every round boundary (after a rescan, a round that returned, a
\* round that raised, set_start_input_file) the running list is the known
\* list without the completed files, in the order of the known list: no
\* file is both running and completed, every known file is one of the two.
C18_PendingIsKnownMinusCompleted ==
    AtRoundBoundary
    => (/\ running = Pending(known, completed)
        /\ Range(running) \cap Range(completed) = {}
        /\ Range(running) \cup Range(completed) = Range(known))

\* C19: the known list a rescan computes depends on the set of files of the
\* directory only, not on the order in which glob lists them: whatever the
\* order, a rescan that is accepted leaves the same known list, files with
\* equal keys included.
C19_KnownIndependentOfListingOrder ==
    [][\A l1 \in Listings(dir) : \A l2 \in Listings(dir) :
        (CallCheckWith(l1) /\ outcome' = "ok")
        => (/\ Rescan(known, completed, running, l2).err = "ok"
            /\ Rescan(known, completed, running, l2).known = known')]_vars

\* The refine_variable_names argument load_inputs was called with is None
\* or empty: load_inputs stores [] for both.
RefineArgOmitted == inputs.refine_variable_names.names = {}

\* C20: when refine_variable_names is None or empty, the parameters every
\* fit marks free are the keys of the initial (carried-over) values;
\* otherwise they are exactly the configured names.
C20_DefaultRefineAllKeys ==
    rpc = "fit"
    => RefineNames(inputs) =
         IF RefineArgOmitted THEN DOMAIN inputs.initial_variable_values
         ELSE inputs.refine_variable_names.names

\* A call of start_one_round is executing.
RoundInProgress == rpc # "none"

\* A step of input_thread.
InputThreadStep == ipc \in {"check", "prompt"} /\ ipc' # ipc

\* C21: in stream mode at most one round, and so at most one fit, executes
\* at any time, however fit_thread and input_thread interleave: a round is
\* executed by fit_thread only and begins only when none is in progress,
\* the loop polls (lines 155, 157) only between rounds, a fit in progress
\* ends before the next fit or round begins, and no step of input_thread
\* begins a round or moves one.
C21_OneRoundAtATime ==
    [][/\ RoundInProgress => (pc_main = "join_fit" /\ fpc = "round")
       /\ (\E listing \in Listings(dir) : RoundBeginWith(listing))
          => (~RoundInProgress /\ fpc = "round")
       /\ fpc \in {"check", "wait"} => ~RoundInProgress
       /\ rpc = "fit"
          => \/ UNCHANGED <<rpc, ridx, completed, running>>
             \/ rpc' = "for" /\ ridx' = ridx + 1
                   /\ completed' = Append(completed, running[ridx])
             \/ rpc' = "none" /\ fpc' = "dead"
       /\ InputThreadStep
          => UNCHANGED <<rpc, ridx, fpc, rounds_in_call, known, completed,
                         running, out>>]_vars

\* C21 witness: in the second round of a stream call a fit is in progress
\* while input_thread has answered a line and waits for the next, and a
\* file not yet known waits in the directory.
C21_Witness ==
    /\ pc_main = "join_fit"
    /\ fpc = "round"
    /\ rpc = "fit"
    /\ rounds_in_call = 2
    /\ ipc = "prompt"
    /\ notice = "unrecognized"
    /\ dir \ Range(known) # {}

\* A step in which the fit of the file running[ridx] fails and the
\* exception leaves start_one_round.
FitFailureStep ==
    \/ rpc = "fit" /\ rpc' = "none"
    \/ rpc = "for" /\ ridx <= Len(running) /\ rpc' = "none"

\* The values the next fit would start from, in the state a step leaves.
CarryAfter ==
    IF has_last' THEN last_vals' ELSE inputs'.initial_variable_values

\* C22 as stated: a failed fit leaves the carry-over unchanged and does not
\* append the failed file to the completed list: after the failure the
\* carry-over holds exactly the values of the last successful fit, or the
\* initial values if no fit has succeeded.
C22_FailureKeepsLastFit ==
    [][FitFailureStep
       => (/\ completed' = completed
           /\ CarryAfter = IF hist_fit.is_none
                           THEN inputs.initial_variable_values
                           ELSE hist_fit.vals)]_vars

\* C22 as amended: a failed fit leaves the carry-over unchanged and does
\* not append the failed file to the completed list or save a result for
\* it: after the failure the carry-over holds the values it held when the
\* failed fit began, which are the values set_start_input_file loaded if it
\* was called since the last successful fit, else the values of the last
\* successful fit, else the initial values.
C22_FailureKeepsCarryOver ==
    [][FitFailureStep
       => (/\ completed' = completed
           /\ out' = out
           /\ has_last' = has_last
           /\ last_vals' = last_vals
           /\ CarryAfter = IF ~hist_resume.is_none THEN hist_resume.vals
                           ELSE IF ~hist_fit.is_none THEN hist_fit.vals
                           ELSE inputs.initial_variable_values)]_vars

\* C22 witness: a batch round was aborted by the failure of its second
\* fit: the first file is completed, the second is not, and the carry-over
\* holds the values of the first fit, which are not the initial ones.
C22_Witness ==
    /\ pc_main = "idle"
    /\ outcome = "FitFailure"
    /\ Len(completed) = 1
    /\ ~hist_started.is_none
    /\ hist_started.file \notin Range(completed)
    /\ ~hist_fit.is_none
    /\ hist_resume.is_none
    /\ has_last
    /\ last_vals = hist_fit.vals
    /\ last_vals # inputs.initial_variable_values

\* C23: after every round that returns without error the running list is
\* empty and the completed list is the known list of that round's rescan;
\* a file that came into the directory while the round was running is not
\* fitted in that round.
C23_RoundCompletesKnown ==
    [][RoundReturnsStep
       => (/\ running' = <<>>
           /\ completed' = known'
           /\ Range(completed') \subseteq Range(known'))]_vars

\* A file has come into the directory whose key is not greater than the
\* key of every known file.
OutOfOrderArrival ==
    \E f \in dir \ Range(known) : \E g \in Range(known) :
        OrderKey(f) <= OrderKey(g)

\* The premises of C24 no longer hold: cancellation was requested, a fit
\* failed or a file was deleted, or a file arrived out of order.
PremiseBroken == stop_event \/ faults > 0 \/ OutOfOrderArrival

\* C24: in stream mode, as long as files arrive with keys greater than
\* every known key, no file is deleted, every fit succeeds and STOP is not
\* typed, every file that is in the input directory is eventually fitted
\* and appended to the completed list, under fair scheduling of fit_thread.
C24_ArrivedFileEventuallyCompleted ==
    \A f \in LiveFiles :
        (f \in dir /\ pc_main = "join_fit" /\ ~PremiseBroken)
        ~> (f \in Range(completed) \/ PremiseBroken)

\* C24 witness: the two files that arrived are completed, in the order of
\* their keys and each with its saved result, by a polling loop that has
\* begun its second round and still runs, with no failure and no STOP.
C24_Witness ==
    /\ pc_main = "join_fit"
    /\ fpc = "wait"
    /\ ~PremiseBroken
    /\ thread_error = "none"
    /\ rounds_in_call = 2
    /\ completed = <<F5, F10>>
    /\ Stems(Range(completed)) = DOMAIN out

====
